---- MODULE Spec2Model ----
(***************************************************************************)
(* Otway-Rees key establishment between a Client, a Server and a Trusted   *)
(* Server, as implemented in Server.py (AbstractEntity, AbstractServer,    *)
(* Server, ServerWorker) and exercised by test_client.py (Client).         *)
(*                                                                         *)
(* Python values are tagged records: a str is its sequence of characters,  *)
(* a tuple its sequence of items, a ciphertext the key and the plaintext   *)
(* it was produced from.  Queues are FIFO sequences indexed by a queue id. *)
(***************************************************************************)
EXTENDS Integers, Sequences, FiniteSets, TLC

\* ---------------------------------------------------------------- bounds
NumClients == 2
MaxConnections == 2

\* ------------------------------------------------------------ Python values
None == [kind |-> "none"]
Str(s) == [kind |-> "str", chars |-> s]
Tup(fs) == [kind |-> "tuple", items |-> fs]
Enc(k, s) == [kind |-> "enc", key |-> k, chars |-> s]
ChannelPair(owner, w) == [kind |-> "pair", owner |-> owner, worker |-> w]

\* == of Python on the values above
PyEq(a, b) == a.kind = b.kind /\ a = b

\* len(message): characters of a str, items of a tuple
PyLen(m) ==
    CASE m.kind = "str" -> Len(m.chars)
      [] m.kind = "tuple" -> Len(m.items)
      [] OTHER -> 0

\* message[i], 0-based, of a str or a tuple
Item(m, i) ==
    IF m.kind = "str" THEN Str(<<m.chars[i + 1]>>) ELSE m.items[i + 1]

\* '{0}'.format(v)
Format(v) == IF v.kind = "str" THEN v.chars ELSE <<"#">>

hello_signal == Str(<<"H", "E", "L", "L", "O">>)
error_signal == Str(<<"E", "R", "R", "O", "R">>)
finish_signal == Str(<<"F", "I", "N", "I", "S", "H">>)
ok_signal == Str(<<"O", "K">>)
max_connections_signal == Str(<<"M", "A", "X", "_", "C", "O", "N", "N", "E", "C", "T", "I", "O", "N", "S", "_",
                                "R", "E", "A", "C", "H", "E", "D">>)

\* ------------------------------------------------------------------ Utils
RECURSIVE Split(_)
\* text.split(':'); the set binds the text once, as a value
Split(s) ==
    CHOOSE fields \in
        {IF \E i \in 1..Len(t) : t[i] = ":"
         THEN LET i == CHOOSE j \in 1..Len(t) : t[j] = ":" /\ \A k \in 1..(j - 1) : t[k] # ":"
              IN <<SubSeq(t, 1, i - 1)>> \o Split(SubSeq(t, i + 1, Len(t)))
         ELSE <<t>> : t \in {s}} : TRUE

RECURSIVE Join(_)
\* ':'.join(fields)
Join(fields) ==
    IF Len(fields) = 0 THEN <<>>
    ELSE IF Len(fields) = 1 THEN fields[1]
    ELSE fields[1] \o <<":">> \o Join(Tail(fields))

\* the text a wrong key, or a value that is no ciphertext, decrypts to
Garbage == <<"?">>

encrypt(text, key) == Enc(key, text)

decrypt(c, key) == IF c.kind = "enc" /\ c.key = key THEN c.chars ELSE Garbage

RECURSIVE Decimal(_)
\* str(n) for n >= 0
Decimal(n) ==
    LET d == <<"0", "1", "2", "3", "4", "5", "6", "7", "8", "9">>
    IN IF n < 10 THEN <<d[n + 1]>> ELSE Decimal(n \div 10) \o <<d[(n % 10) + 1]>>

\* str(generate_random_key()): the rnd-th fresh value
generate_random_key(rnd) == Decimal(rnd)

\* encrypt('{0}:{1}:{2}:{3}'.format(a, b, c, d), key)
prepare_inner_message(key, a, b, c, d) ==
    encrypt(Join(<<Format(a), Format(b), Format(c), Format(d)>>), key)

\* ----------------------------------------------------------- configuration
server_id == Str(<<"s">>)
server_key == <<"k", "s">>
other_server_id == Str(<<"t">>)

Clients == 1..NumClients
Workers == 1..NumClients

\* validate_message_length that lets longer messages through
validate_message_length_at_least(decrypted, intended) == PyLen(decrypted) >= intended

\* ------------------------------------------------- AbstractEntity (Server.py)
\* validate_message_length: TRUE when no IndexError is raised
validate_message_length(decrypted, intended) == PyLen(decrypted) = intended

is_message_error(message) == PyEq(error_signal, message)

is_finish_signal(message) == PyEq(message, finish_signal)

\* get_from_queue's bookkeeping: the queue joins waiting_queues once
Register(waiting_queues, q) ==
    IF \E i \in 1..Len(waiting_queues) : waiting_queues[i] = q
    THEN waiting_queues ELSE Append(waiting_queues, q)

\* ------------------------------------------------------ ServerWorker (Server.py)
NewWorker ==
    [pc |-> "absent",
     waiting_queues |-> <<>>,
     trusted_server_input_queue |-> None,
     trusted_server_output_queue |-> None,
     trusted_random_value |-> None,
     client_random_value |-> None,
     client_client_id |-> None,
     client_server_id |-> None,
     trusted_nonce |-> None,
     session_key |-> None,
     nonce |-> None,
     message_to_trusted |-> None,
     from_client |-> None,
     from_trusted |-> None,
     sent_trusted |-> <<>>,
     emitted |-> <<>>]

unpack_message_from_client(self, message) ==
    IF ~validate_message_length(message, 4)
    THEN [raised |-> TRUE, self |-> self]
    ELSE [raised |-> FALSE,
          self |-> [self EXCEPT !.client_random_value = Item(message, 0),
                                !.client_client_id = Item(message, 1),
                                !.client_server_id = Item(message, 2)]]

\* validate_server_id_match that never raises
validate_server_id_match_skipped(self) == self = self

\* TRUE when no InvalidMessage is raised
validate_server_id_match(self) == PyEq(self.client_server_id, server_id)

prepare_nested_message_for_trusted(self, rnd) ==
    LET n == Str(generate_random_key(rnd))
    IN [self |-> [self EXCEPT !.nonce = n],
        ret |-> prepare_inner_message(server_key, n, self.client_random_value,
                                      self.client_client_id, self.client_server_id)]

\* list(message)
ListOf(message) ==
    IF message.kind = "str"
    THEN [i \in 1..Len(message.chars) |-> Str(<<message.chars[i]>>)]
    ELSE message.items

\* prepare_message_for_trusted_server that puts the new block first
prepare_message_for_trusted_server_prepending(self, message, rnd) ==
    LET nested == prepare_nested_message_for_trusted(self, rnd)
    IN [self |-> nested.self, ret |-> Tup(<<nested.ret>> \o ListOf(message))]

prepare_message_for_trusted_server(self, message, rnd) ==
    LET nested == prepare_nested_message_for_trusted(self, rnd)
    IN [self |-> nested.self, ret |-> Tup(Append(ListOf(message), nested.ret))]

process_message_from_client_and_generate_message_to_trusted(self, message, rnd) ==
    LET u == unpack_message_from_client(self, message)
    IN IF u.raised THEN [self |-> u.self, ret |-> error_signal]
       ELSE IF ~validate_server_id_match(u.self) THEN [self |-> u.self, ret |-> error_signal]
       ELSE prepare_message_for_trusted_server(u.self, message, rnd)

\* unpack_nested_message_from_trusted that keeps the wrong field as the key
unpack_nested_message_from_trusted_swapped(self, encrypted_message) ==
    LET decrypted == Split(decrypt(encrypted_message, server_key))
    IN IF Len(decrypted) # 2
       THEN [raised |-> TRUE, self |-> self]
       ELSE [raised |-> FALSE,
             self |-> [self EXCEPT !.trusted_nonce = Str(decrypted[1]),
                                   !.session_key = Str(decrypted[1])]]

unpack_nested_message_from_trusted(self, encrypted_message) ==
    LET decrypted == Split(decrypt(encrypted_message, server_key))
    IN IF Len(decrypted) # 2
       THEN [raised |-> TRUE, self |-> self]
       ELSE [raised |-> FALSE,
             self |-> [self EXCEPT !.trusted_nonce = Str(decrypted[1]),
                                   !.session_key = Str(decrypted[2])]]

unpack_message_from_trusted(self, message) ==
    IF ~validate_message_length(message, 3)
    THEN [raised |-> TRUE, self |-> self]
    ELSE unpack_nested_message_from_trusted(
             [self EXCEPT !.trusted_random_value = Item(message, 0)], Item(message, 2))

\* validate_random_value_from_trusted that never raises
validate_random_value_from_trusted_skipped(self) == self = self

\* TRUE when no InvalidMessage is raised
validate_random_value_from_trusted(self) ==
    PyEq(self.trusted_random_value, self.client_random_value)

\* validate_nested_message_from_trusted that never raises
validate_nested_message_from_trusted_skipped(self) == self = self

\* TRUE when no InvalidMessage is raised
validate_nested_message_from_trusted(self) == PyEq(self.trusted_nonce, self.nonce)

\* message[:-1]
AllButLast(message) ==
    IF message.kind = "str"
    THEN Str(SubSeq(message.chars, 1, Len(message.chars) - 1))
    ELSE Tup(SubSeq(message.items, 1, Len(message.items) - 1))

\* the response that goes to the client although the nonce check raised
process_message_from_trusted_and_generate_response_for_client_forwarding(self, message) ==
    LET u == unpack_message_from_trusted(self, message)
    IN IF u.raised THEN [self |-> u.self, ret |-> error_signal]
       ELSE IF ~validate_random_value_from_trusted(u.self) THEN [self |-> u.self, ret |-> error_signal]
       ELSE [self |-> u.self, ret |-> AllButLast(message)]

process_message_from_trusted_and_generate_response_for_client(self, message) ==
    LET u == unpack_message_from_trusted(self, message)
    IN IF u.raised THEN [self |-> u.self, ret |-> error_signal]
       ELSE IF ~validate_random_value_from_trusted(u.self) THEN [self |-> u.self, ret |-> error_signal]
       ELSE IF ~validate_nested_message_from_trusted(u.self) THEN [self |-> u.self, ret |-> error_signal]
       ELSE [self |-> u.self, ret |-> AllButLast(message)]

\* ------------------------------------------------------------ Client (Client.py)
ColonId == <<"c", ":", "d">>

ClientIdOf(c) == IF c = 1 THEN <<"a">> ELSE IF c = 2 THEN <<"b">> ELSE <<"e">> \o Decimal(c)

\* the long-term key the Trusted Server holds for an identity ("" when it holds none)
LongTermKey(id) ==
    IF id = server_id.chars THEN server_key
    ELSE IF \E c \in Clients : id = ClientIdOf(c) THEN <<"k">> \o id
    ELSE IF id = ColonId THEN <<"k">> \o id
    ELSE <<>>

NewClient(id, key, sid) ==
    [pc |-> "hello",
     client_id |-> Str(id),
     client_key |-> key,
     server_id |-> sid,
     random_value |-> None,
     nonce |-> None,
     server_random_value |-> None,
     server_nonce |-> None,
     session_key |-> None,
     response |-> None,
     server |-> None,
     sent |-> None,
     received |-> None]

prepare_nested_message(self) ==
    prepare_inner_message(self.client_key, self.nonce, self.random_value,
                          self.client_id, self.server_id)

prepare_message_for_server(self, rnd) ==
    LET s1 == [self EXCEPT !.random_value = Str(generate_random_key(rnd)),
                           !.nonce = Str(generate_random_key(rnd + 1))]
    IN [self |-> s1,
        ret |-> Tup(<<s1.random_value, s1.client_id, s1.server_id, prepare_nested_message(s1)>>)]

\* unpack_nested_message_from_server that keeps the key only of its own nonce
unpack_nested_message_from_server_checked(self, encrypted_message) ==
    LET decrypted == Split(decrypt(encrypted_message, self.client_key))
    IN IF Len(decrypted) # 2
       THEN [raised |-> TRUE, self |-> self]
       ELSE [raised |-> FALSE,
             self |-> [self EXCEPT !.server_nonce = Str(decrypted[1]),
                                   !.session_key = IF PyEq(Str(decrypted[1]), self.nonce)
                                                   THEN Str(decrypted[2]) ELSE @]]

unpack_nested_message_from_server(self, encrypted_message) ==
    LET decrypted == Split(decrypt(encrypted_message, self.client_key))
    IN IF Len(decrypted) # 2
       THEN [raised |-> TRUE, self |-> self]
       ELSE [raised |-> FALSE,
             self |-> [self EXCEPT !.server_nonce = Str(decrypted[1]),
                                   !.session_key = Str(decrypted[2])]]

unpack_message_from_server(self, message) ==
    IF ~validate_message_length(message, 2)
    THEN [raised |-> TRUE, self |-> self]
    ELSE unpack_nested_message_from_server(
             [self EXCEPT !.server_random_value = Item(message, 0)], Item(message, 1))

\* validate_nonce_from_server that accepts any nonce
validate_nonce_from_server_skipped(self) == self = self

\* validate_nonce_from_server that also compares the echoed random value
validate_nonce_and_random_value_from_server(self) ==
    PyEq(self.server_nonce, self.nonce) /\ PyEq(self.server_random_value, self.random_value)

\* TRUE when the echoed nonce is the client's own
validate_nonce_from_server(self) == PyEq(self.server_nonce, self.nonce)

connect_from_server(self, message) ==
    LET u == unpack_message_from_server(self, message)
    IN IF u.raised THEN [self |-> u.self, ret |-> error_signal]
       ELSE IF ~validate_nonce_from_server(u.self) THEN [self |-> u.self, ret |-> error_signal]
       ELSE [self |-> u.self, ret |-> ok_signal]

\* ------------------------------------------------ TrustedServer's worker
trusted_max_connections == 1

NewTrustedWorker == [pc |-> "absent", from_server |-> None, session_key |-> None, tampered |-> FALSE]

\* the reply of an honest Trusted Server to the 5-field message of a ServerWorker
trusted_process_message(message, rnd) ==
    IF ~validate_message_length(message, 5) THEN error_signal
    ELSE LET ckey == LongTermKey(Format(Item(message, 1)))
             skey == LongTermKey(Format(Item(message, 2)))
             cdec == Split(decrypt(Item(message, 3), ckey))
             sdec == Split(decrypt(Item(message, 4), skey))
             k == generate_random_key(rnd)
         IN IF ckey = <<>> \/ skey = <<>> \/ Len(cdec) # 4 \/ Len(sdec) # 4 THEN error_signal
            ELSE Tup(<<Item(message, 0),
                       encrypt(Join(<<cdec[1], k>>), ckey),
                       encrypt(Join(<<sdec[1], k>>), skey)>>)

\* ------------------------------------------------------------------- state
VARIABLES
    queue,      \* the content of every Queue, by queue id
    server,     \* the Server thread and its fields
    worker,     \* the ServerWorker objects the Server has created
    client,     \* the Clients
    trusted,    \* the Trusted Server: how many workers it has handed out
    tworker,    \* the Trusted Server's workers
    stopper,    \* the progress of each finish() call
    rnd         \* how many fresh random values have been generated

vars == <<queue, server, worker, client, trusted, tworker, stopper, rnd>>

ServerIn == <<"server", 0, "in">>
ServerOut == <<"server", 0, "out">>
TrustedIn == <<"trusted", 0, "in">>
TrustedOut == <<"trusted", 0, "out">>
WorkerIn(w) == <<"worker", w, "in">>
WorkerOut(w) == <<"worker", w, "out">>
TWorkerIn(t) == <<"tworker", t, "in">>
TWorkerOut(t) == <<"tworker", t, "out">>

QueueIds ==
    {ServerIn, ServerOut, TrustedIn, TrustedOut}
    \cup {WorkerIn(w) : w \in Workers} \cup {WorkerOut(w) : w \in Workers}
    \cup {TWorkerIn(w) : w \in Workers} \cup {TWorkerOut(w) : w \in Workers}

\* the queues of a channel pair (worker.input_queue, worker.output_queue)
PairIn(p) == <<p.owner, p.worker, "in">>
PairOut(p) == <<p.owner, p.worker, "out">>

\* Queue(maxsize): maxsize <= 0 is unbounded
MaxSize(q) ==
    IF q = ServerIn THEN server.max_connections
    ELSE IF q = TrustedIn THEN trusted_max_connections
    ELSE 0

\* a queue that is never full
NeverFull(q) == q # q

Full(q) == MaxSize(q) > 0 /\ Len(queue[q]) >= MaxSize(q)

\* queue.put(item), once there is room
Put(qs, q, item) == [qs EXCEPT ![q] = Append(@, item)]

\* what queue.get() leaves behind
Pop(qs, q) == [qs EXCEPT ![q] = Tail(@)]

Init ==
    /\ queue = [q \in QueueIds |-> <<>>]
    /\ \E m \in 1..MaxConnections, iw \in BOOLEAN :
          server = [pc |-> "start", running |-> FALSE, waiting_queues |-> <<>>,
                    max_connections |-> m, invoke_workers |-> iw, created |-> 0]
    /\ worker = [w \in Workers |-> NewWorker]
    /\ client = [c \in Clients |->
                    NewClient(ClientIdOf(c), LongTermKey(ClientIdOf(c)), server_id)]
    /\ trusted = [created |-> 0]
    /\ tworker = [t \in Workers |-> NewTrustedWorker]
    /\ stopper = [x \in {0} \cup Workers |-> [pc |-> "idle", i |-> 0]]
    /\ rnd = 0

\* ---------------------------------------------------- AbstractServer.run
\* Thread.start() reaches run(): self.running = True
ServerRun ==
    /\ server.pc = "start"
    /\ server' = [server EXCEPT !.pc = "register", !.running = TRUE]
    /\ UNCHANGED <<queue, worker, client, trusted, tworker, stopper, rnd>>

\* get_from_queue, up to the blocking get
ServerRegister ==
    /\ server.pc = "register"
    /\ server' = [server EXCEPT !.pc = "get",
                                !.waiting_queues = Register(@, ServerIn)]
    /\ UNCHANGED <<queue, worker, client, trusted, tworker, stopper, rnd>>

\* start_worker: the worker's thread runs only if invoke_workers
start_worker(w) == IF server.invoke_workers THEN [w EXCEPT !.pc = "start"] ELSE [w EXCEPT !.pc = "created"]

\* get_new_worker that hands out the worker it made last, once it has made one
get_new_worker_reused == IF server.created = 0 THEN server.created + 1 ELSE server.created

\* get_new_worker: a ServerWorker object that did not exist before
get_new_worker == server.created + 1

\* the blocking get returns the finish signal: the loop ends
ServerGetFinish ==
    /\ server.pc = "get"
    /\ queue[ServerIn] # <<>>
    /\ is_finish_signal(Head(queue[ServerIn]))
    /\ queue' = Pop(queue, ServerIn)
    /\ server' = [server EXCEPT !.pc = "done", !.running = FALSE]
    /\ UNCHANGED <<worker, client, trusted, tworker, stopper, rnd>>

\* the blocking get returns anything else: connect() and hand out the pair
ServerGetConnect ==
    /\ server.pc = "get"
    /\ queue[ServerIn] # <<>>
    /\ ~is_finish_signal(Head(queue[ServerIn]))
    /\ server.created < NumClients
    /\ LET w == get_new_worker
       IN /\ worker' = [worker EXCEPT ![w] = start_worker(NewWorker)]
          /\ queue' = Put(Pop(queue, ServerIn), ServerOut, ChannelPair("worker", w))
          /\ server' = [server EXCEPT !.pc = "register", !.created = w]
    /\ UNCHANGED <<client, trusted, tworker, stopper, rnd>>

\* ------------------------------------------------------- ServerWorker.run
QueueRef(q) == [kind |-> "queue", id |-> q]

\* run() begins: get_from_queue(self.input_queue), up to the blocking get
WorkerStart(w) ==
    /\ worker[w].pc = "start"
    /\ worker' = [worker EXCEPT ![w].pc = "get_client",
                                ![w].waiting_queues = Register(@, WorkerIn(w))]
    /\ UNCHANGED <<queue, server, client, trusted, tworker, stopper, rnd>>

\* the message from the client arrives and is processed
WorkerGetClient(w) ==
    /\ worker[w].pc = "get_client"
    /\ queue[WorkerIn(w)] # <<>>
    /\ LET message_from_client == Head(queue[WorkerIn(w)])
           r == process_message_from_client_and_generate_message_to_trusted(
                    worker[w], message_from_client, rnd)
           got == [r.self EXCEPT !.from_client = message_from_client]
       IN IF is_message_error(r.ret)
          THEN /\ queue' = Put(Pop(queue, WorkerIn(w)), WorkerOut(w), error_signal)
               /\ worker' = [worker EXCEPT ![w] = [got EXCEPT !.pc = "done",
                                                              !.emitted = Append(@, error_signal)]]
               /\ rnd' = rnd
          ELSE /\ queue' = Pop(queue, WorkerIn(w))
               /\ worker' = [worker EXCEPT ![w] = [got EXCEPT !.pc = "hello_trusted",
                                                              !.message_to_trusted = r.ret]]
               /\ rnd' = rnd + 1
    /\ UNCHANGED <<server, client, trusted, tworker, stopper>>

\* connect_to_trusted: establish_connection puts the hello signal
WorkerHelloTrusted(w) ==
    /\ worker[w].pc = "hello_trusted"
    /\ ~Full(TrustedIn)
    /\ queue' = Put(queue, TrustedIn, hello_signal)
    /\ worker' = [worker EXCEPT ![w].pc = "get_pair",
                                ![w].sent_trusted = Append(@, hello_signal)]
    /\ UNCHANGED <<server, client, trusted, tworker, stopper, rnd>>

\* establish_connection returns the pair; the message goes to the Trusted
\* Server and get_from_queue registers the queue the reply comes on
WorkerGetPair(w) ==
    /\ worker[w].pc = "get_pair"
    /\ queue[TrustedOut] # <<>>
    /\ LET p == Head(queue[TrustedOut])
       IN /\ queue' = Put(Pop(queue, TrustedOut), PairIn(p), worker[w].message_to_trusted)
          /\ worker' = [worker EXCEPT
                 ![w].pc = "get_trusted",
                 ![w].trusted_server_input_queue = QueueRef(PairIn(p)),
                 ![w].trusted_server_output_queue = QueueRef(PairOut(p)),
                 ![w].sent_trusted = Append(@, worker[w].message_to_trusted),
                 ![w].message_to_trusted = None,
                 ![w].waiting_queues = Register(@, PairOut(p))]
    /\ UNCHANGED <<server, client, trusted, tworker, stopper, rnd>>

\* a worker that goes back to its input queue after it has answered
WorkerGetTrustedAndLoop(w) ==
    /\ worker[w].pc = "get_trusted"
    /\ LET q == worker[w].trusted_server_output_queue.id
       IN /\ queue[q] # <<>>
          /\ LET message_from_trusted == Head(queue[q])
                 r == process_message_from_trusted_and_generate_response_for_client(
                          worker[w], message_from_trusted)
             IN /\ queue' = Put(Pop(queue, q), WorkerOut(w), r.ret)
                /\ worker' = [worker EXCEPT ![w] = [r.self EXCEPT
                                  !.pc = "get_client",
                                  !.from_trusted = message_from_trusted,
                                  !.emitted = Append(@, r.ret)]]
    /\ UNCHANGED <<server, client, trusted, tworker, stopper, rnd>>

\* the reply of the Trusted Server arrives, is processed and answered
WorkerGetTrusted(w) ==
    /\ worker[w].pc = "get_trusted"
    /\ LET q == worker[w].trusted_server_output_queue.id
       IN /\ queue[q] # <<>>
          /\ LET message_from_trusted == Head(queue[q])
                 r == process_message_from_trusted_and_generate_response_for_client(
                          worker[w], message_from_trusted)
             IN /\ queue' = Put(Pop(queue, q), WorkerOut(w), r.ret)
                /\ worker' = [worker EXCEPT ![w] = [r.self EXCEPT
                                  !.pc = "done",
                                  !.from_trusted = message_from_trusted,
                                  !.emitted = Append(@, r.ret)]]
    /\ UNCHANGED <<server, client, trusted, tworker, stopper, rnd>>

\* ----------------------------------------------------------- Trusted Server
\* the Trusted Server, a listening server, answers a hello with a new worker
TrustedAccept ==
    /\ queue[TrustedIn] # <<>>
    /\ trusted.created < NumClients
    /\ LET t == trusted.created + 1
       IN /\ queue' = Put(Pop(queue, TrustedIn), TrustedOut, ChannelPair("tworker", t))
          /\ tworker' = [tworker EXCEPT ![t].pc = "get"]
          /\ trusted' = [trusted EXCEPT !.created = t]
    /\ UNCHANGED <<server, worker, client, stopper, rnd>>

\* replies a tampering Trusted Server (or channel) substitutes for reply h
TamperedReplies(h) ==
    IF PyLen(h) # 3 THEN {Tup(<<>>)}
    ELSE LET rc == Item(h, 0)
             cb == Item(h, 1)
             sb == Item(h, 2)
             sdec == Split(sb.chars)
         IN {Tup(<<rc, cb, encrypt(Join(<<<<"x">>, sdec[2]>>), sb.key)>>),
             Tup(<<Str(<<"y">>), cb, sb>>),
             Tup(<<rc, cb>>),
             Tup(<<rc, cb, encrypt(Join(<<sdec[1], sdec[2], sdec[2]>>), sb.key)>>),
             Tup(<<rc, cb, encrypt(sb.chars, <<"k", "x">>)>>),
             Tup(<<rc, encrypt(Join(<<<<"x">>, sdec[2]>>), cb.key), sb>>),
             Tup(<<rc, encrypt(Join(<<Split(cb.chars)[1], <<"x">>>>), cb.key), sb>>)}

\* the Trusted Server's worker answers the message of a ServerWorker
TrustedReply(t) ==
    /\ tworker[t].pc = "get"
    /\ queue[TWorkerIn(t)] # <<>>
    /\ LET message == Head(queue[TWorkerIn(t)])
           reply == trusted_process_message(message, rnd)
       IN /\ queue' = Put(Pop(queue, TWorkerIn(t)), TWorkerOut(t), reply)
          /\ tworker' = [tworker EXCEPT ![t].pc = "done", ![t].from_server = message,
                            ![t].session_key = IF is_message_error(reply) THEN None
                                               ELSE Str(generate_random_key(rnd))]
          /\ rnd' = IF is_message_error(reply) THEN rnd ELSE rnd + 1
    /\ UNCHANGED <<server, worker, client, trusted, stopper>>

\* the reply is tampered with on its way to the ServerWorker
TrustedReplyTampered(t) ==
    /\ tworker[t].pc = "get"
    /\ queue[TWorkerIn(t)] # <<>>
    /\ LET message == Head(queue[TWorkerIn(t)])
           reply == trusted_process_message(message, rnd)
       IN /\ \E bad \in TamperedReplies(reply) :
                queue' = Put(Pop(queue, TWorkerIn(t)), TWorkerOut(t), bad)
          /\ tworker' = [tworker EXCEPT ![t].pc = "done", ![t].from_server = message,
                            ![t].tampered = TRUE,
                            ![t].session_key = IF is_message_error(reply) THEN None
                                               ELSE Str(generate_random_key(rnd))]
          /\ rnd' = IF is_message_error(reply) THEN rnd ELSE rnd + 1
    /\ UNCHANGED <<server, worker, client, trusted, stopper>>

\* ------------------------------------------------------------------ Client
\* establish_connection, first half: the hello signal waits for room
ClientHello(c) ==
    /\ client[c].pc = "hello"
    /\ ~Full(ServerIn)
    /\ queue' = Put(queue, ServerIn, hello_signal)
    /\ client' = [client EXCEPT ![c].pc = "get_pair"]
    /\ UNCHANGED <<server, worker, trusted, tworker, stopper, rnd>>

\* establish_connection, second half: endpoint.output_queue.get()
ClientGetPair(c) ==
    /\ client[c].pc = "get_pair"
    /\ queue[ServerOut] # <<>>
    /\ queue' = Pop(queue, ServerOut)
    /\ client' = [client EXCEPT ![c].pc = "send", ![c].server = Head(queue[ServerOut])]
    /\ UNCHANGED <<server, worker, trusted, tworker, stopper, rnd>>

\* run(): the prepared message goes on the server's input queue
ClientSend(c) ==
    /\ client[c].pc = "send"
    /\ LET r == prepare_message_for_server(client[c], rnd)
       IN /\ queue' = Put(queue, PairIn(client[c].server), r.ret)
          /\ client' = [client EXCEPT ![c] = [r.self EXCEPT !.pc = "recv", !.sent = r.ret]]
    /\ rnd' = rnd + 2
    /\ UNCHANGED <<server, worker, trusted, tworker, stopper>>

\* what a requester that does not follow the protocol may send instead
BadClientMessages ==
    LET block == encrypt(<<"g">>, <<"k", "a">>)
    IN {Tup(<<Str(<<"r">>), Str(<<"a">>), server_id>>),
        Tup(<<Str(<<"r">>), Str(<<"a">>), server_id, block, block>>),
        Tup(<<Str(<<"r">>), Str(<<"a">>), other_server_id, block>>),
        Tup(<<Str(<<"r">>), Str(<<"a">>), server_id, block>>),
        Str(<<"r", "a", "s", "g">>),
        Str(<<"r", "a", "t", "g">>)}

ClientSendBad(c) ==
    /\ client[c].pc = "send"
    /\ \E m \in BadClientMessages :
          /\ queue' = Put(queue, PairIn(client[c].server), m)
          /\ client' = [client EXCEPT ![c].pc = "recv", ![c].sent = m]
    /\ UNCHANGED <<server, worker, trusted, tworker, stopper, rnd>>

\* run(): the reply arrives and connect_from_server decides the outcome
ClientRecv(c) ==
    /\ client[c].pc = "recv"
    /\ LET q == PairOut(client[c].server)
       IN /\ queue[q] # <<>>
          /\ LET r == connect_from_server(client[c], Head(queue[q]))
             IN client' = [client EXCEPT ![c] = [r.self EXCEPT !.pc = "done", !.response = r.ret,
                                                                 !.received = Head(queue[q])]]
          /\ queue' = Pop(queue, q)
    /\ UNCHANGED <<server, worker, trusted, tworker, stopper, rnd>>

\* ------------------------------------------- AbstractStoppableEntity.finish
\* waiting_queues of a Server that also holds the input queues of its workers
WaitingQueuesWithWorkers(x) ==
    IF x = 0 THEN server.waiting_queues \o [i \in 1..server.created |-> WorkerIn(i)]
    ELSE worker[x].waiting_queues

\* the waiting_queues of the entity a stopper stops: 0 is the Server
WaitingQueues(x) == IF x = 0 THEN server.waiting_queues ELSE worker[x].waiting_queues

\* finish() is called on an entity that exists
FinishCall(x) ==
    /\ stopper[x].pc = "idle"
    /\ x # 0 => worker[x].pc # "absent"
    /\ stopper' = [stopper EXCEPT ![x].pc = "iter"]
    /\ UNCHANGED <<queue, server, worker, client, trusted, tworker, rnd>>

\* one turn of the loop over waiting_queues: put the finish signal
FinishPut(x) ==
    /\ stopper[x].pc = "iter"
    /\ stopper[x].i < Len(WaitingQueues(x))
    /\ LET q == WaitingQueues(x)[stopper[x].i + 1]
       IN /\ ~Full(q)
          /\ queue' = Put(queue, q, finish_signal)
    /\ stopper' = [stopper EXCEPT ![x].i = @ + 1]
    /\ UNCHANGED <<server, worker, client, trusted, tworker, rnd>>

\* the loop over waiting_queues ends
FinishReturn(x) ==
    /\ stopper[x].pc = "iter"
    /\ stopper[x].i >= Len(WaitingQueues(x))
    /\ stopper' = [stopper EXCEPT ![x].pc = "done"]
    /\ UNCHANGED <<queue, server, worker, client, trusted, tworker, rnd>>

\* ----------------------------------------------------------- specification
\* what the Server and its workers do
ServerNext ==
    \/ ServerRun
    \/ ServerRegister
    \/ ServerGetFinish
    \/ ServerGetConnect

\* The whole system: Clients connect to the Server, whose workers talk to an
\* honest Trusted Server; the Server may be stopped at any moment.
Next ==
    \/ ServerNext
    \/ \E w \in Workers : WorkerStart(w)
    \/ \E w \in Workers : WorkerGetClient(w)
    \/ \E w \in Workers : WorkerHelloTrusted(w)
    \/ \E w \in Workers : WorkerGetPair(w)
    \/ \E w \in Workers : WorkerGetTrusted(w)
    \/ TrustedAccept
    \/ \E t \in Workers : TrustedReply(t)
    \/ \E c \in Clients : ClientHello(c)
    \/ \E c \in Clients : ClientGetPair(c)
    \/ \E c \in Clients : ClientSend(c)
    \/ \E c \in Clients : ClientRecv(c)
    \/ FinishCall(0)
    \/ FinishPut(0)
    \/ FinishReturn(0)

Spec == Init /\ [][Next]_vars

\* Two concurrent runs: the whole system with the first two Clients, and the
\* workers the Server and the Trusted Server create for them.
TwoRuns == {1, 2}

TwoRunNext ==
    \/ ServerNext
    \/ \E w \in TwoRuns : WorkerStart(w)
    \/ \E w \in TwoRuns : WorkerGetClient(w)
    \/ \E w \in TwoRuns : WorkerHelloTrusted(w)
    \/ \E w \in TwoRuns : WorkerGetPair(w)
    \/ \E w \in TwoRuns : WorkerGetTrusted(w)
    \/ TrustedAccept
    \/ \E t \in TwoRuns : TrustedReply(t)
    \/ \E c \in TwoRuns : ClientHello(c)
    \/ \E c \in TwoRuns : ClientGetPair(c)
    \/ \E c \in TwoRuns : ClientSend(c)
    \/ \E c \in TwoRuns : ClientRecv(c)
    \/ FinishCall(0)
    \/ FinishPut(0)
    \/ FinishReturn(0)

TwoRunSpec == Init /\ [][TwoRunNext]_vars



\* Admission alone: requesters shake hands with the Server, which hands each a
\* started worker, and the Server may be stopped at any moment.  These are the
\* steps of Next that read or write the Server, its two queues and a
\* requester's handshake.
AdmissionNext ==
    \/ ServerNext
    \/ \E w \in Workers : WorkerStart(w)
    \/ \E c \in Clients : ClientHello(c)
    \/ \E c \in Clients : ClientGetPair(c)
    \/ FinishCall(0)
    \/ FinishPut(0)
    \/ FinishReturn(0)

AdmissionSpec == Init /\ [][AdmissionNext]_vars

\* The threads of admission are scheduled: the Server, a started worker, a
\* requester that waits for its pair and a finish() call that has begun.
\* Nothing makes a requester put its hello signal or anyone call finish().
AdmissionProgress ==
    \/ ServerNext
    \/ \E w \in Workers : WorkerStart(w)
    \/ \E c \in Clients : ClientGetPair(c)
    \/ FinishPut(0)
    \/ FinishReturn(0)

FairAdmissionSpec == AdmissionSpec /\ WF_vars(AdmissionProgress)

\* Termination of the Server while a run is in flight: two Clients may connect
\* and send, the first worker the Server creates runs against the Trusted
\* Server, and finish() may be called on the Server at any moment.
StopNext ==
    \/ ServerNext
    \/ \E w \in TwoRuns : WorkerStart(w)
    \/ WorkerGetClient(1)
    \/ WorkerHelloTrusted(1)
    \/ WorkerGetPair(1)
    \/ WorkerGetTrusted(1)
    \/ TrustedAccept
    \/ TrustedReply(1)
    \/ \E c \in TwoRuns : ClientHello(c)
    \/ \E c \in TwoRuns : ClientGetPair(c)
    \/ \E c \in TwoRuns : ClientSend(c)
    \/ \E c \in TwoRuns : ClientRecv(c)
    \/ FinishCall(0)
    \/ FinishPut(0)
    \/ FinishReturn(0)

\* Every thread that can take a step is scheduled in the end: the threads of
\* the Server, of the workers and of the Trusted Server, a Client that waits
\* for its pair or its reply, and a finish() call that has begun. Nothing
\* makes a Client connect or send, and nothing makes anyone call finish(). No
\* thread steps without taking an item or leaving a place for good, so every
\* behaviour ends, and fairness of the steps together is fairness of each.
StopProgress ==
    \/ ServerNext
    \/ \E w \in TwoRuns : WorkerStart(w)
    \/ WorkerGetClient(1)
    \/ WorkerHelloTrusted(1)
    \/ WorkerGetPair(1)
    \/ WorkerGetTrusted(1)
    \/ TrustedAccept
    \/ TrustedReply(1)
    \/ \E c \in TwoRuns : ClientGetPair(c)
    \/ \E c \in TwoRuns : ClientRecv(c)
    \/ FinishPut(0)
    \/ FinishReturn(0)

FairStopSpec == Init /\ [][StopNext]_vars /\ WF_vars(StopProgress)

\* One run seen from its ServerWorker: the worker the Server has just handed
\* to a requester, which sends the Client's message or any other one; the
\* Trusted Server's reply may be tampered with, and the worker may be stopped.
RunInit ==
    /\ queue = [q \in QueueIds |-> <<>>]
    /\ server = [pc |-> "register", running |-> TRUE, waiting_queues |-> <<ServerIn>>,
                 max_connections |-> 1, invoke_workers |-> TRUE, created |-> 1]
    /\ worker = [w \in Workers |-> IF w = 1 THEN [NewWorker EXCEPT !.pc = "start"] ELSE NewWorker]
    /\ client = [c \in Clients |->
                    IF c = 1
                    THEN [NewClient(ClientIdOf(c), LongTermKey(ClientIdOf(c)), server_id)
                              EXCEPT !.pc = "send", !.server = ChannelPair("worker", 1)]
                    ELSE NewClient(ClientIdOf(c), LongTermKey(ClientIdOf(c)), server_id)]
    /\ trusted = [created |-> 0]
    /\ tworker = [t \in Workers |-> NewTrustedWorker]
    /\ stopper = [x \in {0} \cup Workers |-> [pc |-> "idle", i |-> 0]]
    /\ rnd = 0

RunNext ==
    \/ WorkerStart(1)
    \/ WorkerGetClient(1)
    \/ WorkerHelloTrusted(1)
    \/ WorkerGetPair(1)
    \/ WorkerGetTrusted(1)
    \/ TrustedAccept
    \/ TrustedReply(1)
    \/ TrustedReplyTampered(1)
    \/ ClientSend(1)
    \/ ClientSendBad(1)
    \/ ClientRecv(1)
    \/ FinishCall(1)
    \/ FinishPut(1)
    \/ FinishReturn(1)

RunSpec == RunInit /\ [][RunNext]_vars

\* The threads of the run are scheduled: the worker, the Trusted Server and
\* its worker, which answers the hello and the message one way or the other,
\* the Client that waits for its reply and a finish() call that has begun.
\* Nothing makes the Client send, and nothing makes anyone call finish().
RunProgress ==
    \/ WorkerStart(1)
    \/ WorkerGetClient(1)
    \/ WorkerHelloTrusted(1)
    \/ WorkerGetPair(1)
    \/ WorkerGetTrusted(1)
    \/ TrustedAccept
    \/ TrustedReply(1)
    \/ TrustedReplyTampered(1)
    \/ ClientRecv(1)
    \/ FinishPut(1)
    \/ FinishReturn(1)

FairRunSpec == RunSpec /\ WF_vars(RunProgress)

\* The Client alone, against an endpoint that answers anything (the mock
\* server of test_client.py).
ClientIds == {<<"a">>, ColonId}
ServerIds == {server_id, other_server_id}

ClientInit ==
    /\ queue = [q \in QueueIds |-> <<>>]
    /\ server = [pc |-> "start", running |-> FALSE, waiting_queues |-> <<>>,
                 max_connections |-> 1, invoke_workers |-> FALSE, created |-> 0]
    /\ worker = [w \in Workers |-> NewWorker]
    /\ \E id \in ClientIds, sid \in ServerIds :
          client = [c \in Clients |->
                       IF c = 1
                       THEN [NewClient(id, LongTermKey(id), sid)
                                 EXCEPT !.pc = "send", !.server = ChannelPair("worker", 1)]
                       ELSE NewClient(ClientIdOf(c), LongTermKey(ClientIdOf(c)), server_id)]
    /\ trusted = [created |-> 0]
    /\ tworker = [t \in Workers |-> NewTrustedWorker]
    /\ stopper = [x \in {0} \cup Workers |-> [pc |-> "idle", i |-> 0]]
    /\ rnd \in 0..1

\* what may come back to a Client that holds key and nonce
RepliesTo(self) ==
    LET k == <<"9", "9">>
        good == encrypt(Join(<<Format(self.nonce), k>>), self.client_key)
        blocks == {good,
                   encrypt(Join(<<<<"x">>, k>>), self.client_key),
                   encrypt(Join(<<Format(self.nonce), k>>), <<"k", "x">>),
                   encrypt(Join(<<Format(self.nonce), k, k>>), self.client_key),
                   encrypt(Format(self.nonce), self.client_key),
                   Str(<<>>)}
    IN {Tup(<<rc, b>>) : rc \in {self.random_value, Str(<<"y">>)}, b \in blocks}
       \cup {Tup(<<self.random_value>>), Tup(<<self.random_value, good, good>>),
             error_signal, ok_signal, finish_signal}

\* the endpoint answers the Client's message
MockServerReply ==
    /\ client[1].pc = "recv"
    /\ queue[PairIn(client[1].server)] # <<>>
    /\ \E m \in RepliesTo(client[1]) :
          queue' = Put(Pop(queue, PairIn(client[1].server)), PairOut(client[1].server), m)
    /\ UNCHANGED <<server, worker, client, trusted, tworker, stopper, rnd>>

ClientNext ==
    \/ ClientSend(1)
    \/ MockServerReply
    \/ ClientRecv(1)

ClientSpec == ClientInit /\ [][ClientNext]_vars

\* ------------------------------------------------------------------ claims
HonestTrusted == \A t \in Workers : ~tworker[t].tampered

Accepted(c) == client[c].pc = "done" /\ PyEq(client[c].response, ok_signal)

\* the worker whose channel pair client c holds
WorkerOf(c) == worker[client[c].server.worker]

\* C1: in a complete run with an honest Trusted Server that holds the keys of
\* the Client and the Server, a Client that ends with OK holds the session key
\* its ServerWorker extracted from the block for the server.
C1_SessionKeysMatch ==
    \A c \in Clients :
        (Accepted(c) /\ HonestTrusted)
            => /\ client[c].session_key.kind = "str"
               /\ PyEq(client[c].session_key, WorkerOf(c).session_key)

C1_Witness == \E c \in Clients : Accepted(c) /\ HonestTrusted /\ WorkerOf(c).pc = "done"

\* the worker has taken a message of n items from its input queue
TookFromClient(w) == worker[w].from_client.kind # "none"

TookFromTrusted(w) == worker[w].from_trusted.kind # "none"

NoTrustedContact(w) ==
    /\ worker[w].sent_trusted = <<>>
    /\ worker[w].trusted_server_input_queue.kind = "none"
    /\ worker[w].trusted_server_output_queue.kind = "none"

ServerIdMismatch(w) ==
    /\ TookFromClient(w)
    /\ PyLen(worker[w].from_client) = 4
    /\ ~PyEq(Item(worker[w].from_client, 2), server_id)

\* C2: a worker that takes a 4-field client message naming another server puts
\* ERROR on its output queue, never sends the hello signal or any message to
\* the Trusted Server, and ends.
C2_WrongServerIdRejected ==
    \A w \in Workers :
        ServerIdMismatch(w)
            => /\ worker[w].emitted = <<error_signal>>
               /\ worker[w].pc = "done"
               /\ NoTrustedContact(w)
               /\ queue[TrustedIn] = <<>> /\ trusted.created = 0

C2_Witness == \E w \in Workers : ServerIdMismatch(w) /\ worker[w].from_client.kind = "tuple"

WrongArityFromClient(w) == TookFromClient(w) /\ PyLen(worker[w].from_client) # 4

WrongArityFromTrusted(w) == TookFromTrusted(w) /\ PyLen(worker[w].from_trusted) # 3

WrongArityServerBlock(w) ==
    /\ TookFromTrusted(w)
    /\ PyLen(worker[w].from_trusted) = 3
    /\ Len(Split(decrypt(Item(worker[w].from_trusted, 2), server_key))) # 2

\* C3: a client message that has not 4 fields, a Trusted Server reply that has
\* not 3, or a server block that does not decrypt to 2 makes the worker emit
\* ERROR and nothing else; after the first there is no Trusted Server contact,
\* after the others no 2-field reply to the client.
C3_WrongArityRejected ==
    \A w \in Workers :
        /\ WrongArityFromClient(w)
              => worker[w].emitted = <<error_signal>> /\ worker[w].pc = "done" /\ NoTrustedContact(w)
        /\ (WrongArityFromTrusted(w) \/ WrongArityServerBlock(w))
              => worker[w].emitted = <<error_signal>> /\ worker[w].pc = "done"

C3_Witness ==
    \E w \in Workers :
        /\ WrongArityFromTrusted(w) \/ WrongArityServerBlock(w)
        /\ worker[w].from_trusted.kind = "tuple"

\* what the block of a 2-field reply decrypts and splits to under the client's key
DecryptedBlock(self, message) == Split(decrypt(Item(message, 1), self.client_key))

\* the reply carries a block of exactly 2 fields under the client's own key
WellFormedReply(self, message) ==
    /\ PyLen(message) = 2
    /\ Len(DecryptedBlock(self, message)) = 2

\* C4: the Client's outcome for a reply is OK exactly when the block decrypts
\* under its own key to 2 fields whose first is the nonce of this run; every
\* other reply yields ERROR.
C4_AcceptOnlyOwnNonce ==
    \A c \in Clients :
        client[c].pc = "done"
            => LET m == client[c].received
                   ok == /\ WellFormedReply(client[c], m)
                         /\ PyEq(Str(DecryptedBlock(client[c], m)[1]), client[c].nonce)
               IN IF ok THEN PyEq(client[c].response, ok_signal)
                        ELSE PyEq(client[c].response, error_signal)

C4_Witness ==
    \E c \in Clients :
        /\ client[c].pc = "done"
        /\ WellFormedReply(client[c], client[c].received)
        /\ ~PyEq(Str(DecryptedBlock(client[c], client[c].received)[1]), client[c].nonce)
        /\ PyEq(client[c].response, error_signal)

\* the reply was rejected for its nonce alone
RejectedForNonce(c) ==
    /\ client[c].pc = "done"
    /\ PyEq(client[c].response, error_signal)
    /\ WellFormedReply(client[c], client[c].received)

\* C5 as claimed: after a reply rejected for its nonce the Client's
\* session_key does not hold the key carried in the rejected block.
C5_RejectedKeyNotRetained ==
    \A c \in Clients :
        RejectedForNonce(c)
            => ~PyEq(client[c].session_key, Str(DecryptedBlock(client[c], client[c].received)[2]))

\* C5 as amended: the Client stores the key of every block that decrypts to 2
\* fields before it compares the nonce, so after a rejection for the nonce
\* session_key holds the key of the rejected block; it stays unset only when
\* the reply has not 2 fields or its block does not decrypt to 2 fields.
C5_KeyStoredBeforeNonceCheck ==
    \A c \in Clients :
        client[c].pc = "done"
            => IF WellFormedReply(client[c], client[c].received)
               THEN PyEq(client[c].session_key, Str(DecryptedBlock(client[c], client[c].received)[2]))
               ELSE client[c].session_key.kind = "none"

C5_Witness == \E c \in Clients : RejectedForNonce(c) /\ client[c].session_key.kind = "str"

\* first fields a reply may carry in place of the random value the Client sent
EchoValues(c) == {client[c].random_value, Str(<<"y">>), Str(<<>>)}

\* C6: the Client's outcome does not depend on the first field of a 2-field
\* reply: with the same block and any other first field the outcome is the
\* same, before the reply is taken and for the outcome the Client reached.
C6_RandomValueIgnored ==
    \A c \in Clients :
        /\ (client[c].pc = "recv" /\ queue[PairOut(client[c].server)] # <<>>)
              => LET m == Head(queue[PairOut(client[c].server)])
                 IN (m.kind = "tuple" /\ PyLen(m) = 2)
                       => \A rc \in EchoValues(c) :
                             PyEq(connect_from_server(client[c], Tup(<<rc, Item(m, 1)>>)).ret,
                                  connect_from_server(client[c], m).ret)
        /\ (client[c].pc = "done" /\ client[c].received.kind = "tuple" /\ PyLen(client[c].received) = 2)
              => \A rc \in EchoValues(c) :
                    PyEq(connect_from_server(client[c], Tup(<<rc, Item(client[c].received, 1)>>)).ret,
                         client[c].response)

C6_Witness ==
    \E c \in Clients :
        /\ Accepted(c)
        /\ ~PyEq(client[c].server_random_value, client[c].random_value)

\* C7 as claimed: the message the Client builds is the 4-tuple (random value,
\* client id, server id, block), the block decrypts under the Client's key to
\* exactly (nonce, random value, client id, server id), and it is what the
\* Client puts on the server's input queue.
C7_MessageForServer ==
    \A c \in Clients :
        client[c].sent.kind # "none"
            => LET m == client[c].sent
               IN /\ m.kind = "tuple" /\ PyLen(m) = 4
                  /\ PyEq(Item(m, 0), client[c].random_value)
                  /\ PyEq(Item(m, 1), client[c].client_id)
                  /\ PyEq(Item(m, 2), client[c].server_id)
                  /\ Split(decrypt(Item(m, 3), client[c].client_key))
                        = <<client[c].nonce.chars, client[c].random_value.chars,
                            client[c].client_id.chars, client[c].server_id.chars>>
                  /\ (client[c].pc = "recv" /\ queue[PairIn(client[c].server)] # <<>>)
                        => PyEq(Head(queue[PairIn(client[c].server)]), m)

\* the workers whose thread has started and has not ended
ActiveWorkers == {w \in Workers : worker[w].pc \notin {"absent", "created", "done"}}

\* C8 as claimed: the workers of the Server that have been started and have
\* not ended are never more than max_connections.
C8_ConcurrentSessionsBounded == Cardinality(ActiveWorkers) <= server.max_connections

QueueBounded == Len(queue[ServerIn]) <= server.max_connections

NoMaxConnectionsSignal ==
    /\ \A q \in QueueIds : \A i \in 1..Len(queue[q]) : ~PyEq(queue[q][i], max_connections_signal)
    /\ \A c \in Clients : ~PyEq(client[c].received, max_connections_signal)

\* a requester whose hello signal finds the input queue full does not move
BlockedStaysBlocked ==
    \A c \in Clients : (client[c].pc = "hello" /\ Full(ServerIn)) => client'[c] = client[c]

\* C9: the Server's input queue never holds more than max_connections items, a
\* requester that finds it full stays where it is until there is room, and the
\* signal MAX_CONNECTIONS_REACHED is on no queue and reaches no requester.
C9_AdmissionBackpressured ==
    /\ [](QueueBounded /\ NoMaxConnectionsSignal)
    /\ [][BlockedStaysBlocked]_vars

C9_Witness == \E c \in Clients : client[c].pc = "hello" /\ Full(ServerIn)

TookFinish(w) ==
    \/ TookFromClient(w) /\ is_finish_signal(worker[w].from_client)
    \/ TookFromTrusted(w) /\ is_finish_signal(worker[w].from_trusted)

\* C10 as claimed: a worker that takes the finish signal, from its input queue
\* or from the queue of the Trusted Server, puts no ERROR on its output queue.
C10_FinishIsNotAnError ==
    \A w \in Workers :
        TookFinish(w) => \A i \in 1..Len(worker[w].emitted) : ~PyEq(worker[w].emitted[i], error_signal)

\* the fields a message item shows: a str itself, a block its plaintext fields
FieldsOf(item) ==
    IF item.kind = "str" THEN {item.chars}
    ELSE IF item.kind = "enc"
         THEN {Split(item.chars)[i] : i \in 1..Len(Split(item.chars))}
         ELSE {}

\* message m carries the value s in one of its items
Carries(m, s) == m.kind = "tuple" /\ \E i \in 1..Len(m.items) : s \in FieldsOf(m.items[i])

\* a run is named by its ServerWorker: the Clients and the Trusted Server's
\* worker that hold a channel pair of the run
ClientsOf(w) == {c \in Clients : client[c].server.kind = "pair" /\ client[c].server.worker = w}

TWorkersOf(w) ==
    IF worker[w].trusted_server_input_queue.kind = "queue"
    THEN {worker[w].trusted_server_input_queue.id[2]} ELSE {}

\* the nonces and the session key made in run w
SecretsOf(w) ==
    (IF worker[w].nonce.kind = "str" THEN {worker[w].nonce.chars} ELSE {})
    \cup UNION {IF client[c].nonce.kind = "str" THEN {client[c].nonce.chars} ELSE {} : c \in ClientsOf(w)}
    \cup UNION {IF tworker[t].session_key.kind = "str" THEN {tworker[t].session_key.chars} ELSE {}
                  : t \in TWorkersOf(w)}

\* a party of run w has received a message that carries s
ReceivedIn(w, s) ==
    \/ Carries(worker[w].from_client, s)
    \/ Carries(worker[w].from_trusted, s)
    \/ \E c \in ClientsOf(w) : Carries(client[c].received, s)
    \/ \E t \in TWorkersOf(w) : Carries(tworker[t].from_server, s)

\* the channel pairs handed out and not yet taken, and those a requester holds
PairsHandedOut ==
    [i \in 1..Len(queue[ServerOut]) |-> queue[ServerOut][i].worker]

DistinctPairs ==
    /\ \A c1, c2 \in Clients :
          (c1 # c2 /\ client[c1].server.kind = "pair" /\ client[c2].server.kind = "pair")
              => client[c1].server.worker # client[c2].server.worker
    /\ \A i, j \in 1..Len(PairsHandedOut) : i # j => PairsHandedOut[i] # PairsHandedOut[j]
    /\ \A c \in Clients, i \in 1..Len(PairsHandedOut) :
          client[c].server.kind = "pair" => client[c].server.worker # PairsHandedOut[i]
    /\ \A w1, w2 \in Workers : w1 # w2 => TWorkersOf(w1) \cap TWorkersOf(w2) = {}

\* a pair the Server puts on its output queue is the pair of a worker that did
\* not exist before
FreshPair ==
    Len(queue'[ServerOut]) > Len(queue[ServerOut])
        => LET p == queue'[ServerOut][Len(queue'[ServerOut])]
           IN worker[p.worker].pc = "absent" /\ worker'[p.worker].pc # "absent"

Isolated == \A w1, w2 \in Workers : w1 # w2 => \A s \in SecretsOf(w2) : ~ReceivedIn(w1, s)

\* C11: with two concurrent runs every handshake hands out the pair of a
\* worker created for it, no pair reaches two requesters, and no party of one
\* run receives a message that carries a nonce or the session key of the other.
C11_RunsIsolated == [](DistinctPairs /\ Isolated) /\ [][FreshPair]_vars

C11_Witness ==
    /\ \A c \in TwoRuns : Accepted(c)
    /\ client[1].server.worker = 2

\* the block for the server of a 3-field reply, decrypted under the server's key
ServerBlock(message) == Split(decrypt(Item(message, 2), server_key))

\* worker w took a 3-field reply whose block decrypts to 2 fields, the first
\* of which is not the nonce w generated
ServerNonceTampered(w) ==
    /\ TookFromTrusted(w)
    /\ PyLen(worker[w].from_trusted) = 3
    /\ Len(ServerBlock(worker[w].from_trusted)) = 2
    /\ ~PyEq(Str(ServerBlock(worker[w].from_trusted)[1]), worker[w].nonce)

TamperedRunOf(c) ==
    /\ client[c].server.kind = "pair"
    /\ ServerNonceTampered(client[c].server.worker)

\* C12 as claimed: the Client of a run whose reply from the Trusted Server
\* carries a wrong nonce for the server never receives anything from its worker.
C12_ClientNeverReceives ==
    \A c \in Clients : TamperedRunOf(c) => client[c].received.kind = "none" /\ client[c].pc # "done"

\* C12 as the code has it: the worker of such a run puts ERROR, and nothing
\* else, on its output queue; the Client either has not taken it yet or has
\* received exactly ERROR and ended with ERROR.
C12_ClientReceivesError ==
    \A c \in Clients :
        TamperedRunOf(c) =>
            LET w == client[c].server.worker
            IN /\ worker[w].pc = "done"
               /\ worker[w].emitted = <<error_signal>>
               /\ \/ /\ queue[WorkerOut(w)] = <<error_signal>>
                     /\ client[c].received.kind = "none"
                     /\ client[c].pc = "recv"
                  \/ /\ queue[WorkerOut(w)] = <<>>
                     /\ PyEq(client[c].received, error_signal)
                     /\ client[c].pc = "done"
                     /\ PyEq(client[c].response, error_signal)

C12_Witness ==
    \E c \in Clients : TamperedRunOf(c) /\ PyEq(client[c].received, error_signal)

\* a Server that has taken the finish signal does nothing more: it creates no
\* worker, hands out no pair and takes nothing from its input queue
StoppedStaysStopped ==
    server.pc = "done" =>
        /\ server' = server
        /\ \A w \in Workers : worker[w].pc = "absent" => worker'[w].pc = "absent"
        /\ Len(queue'[ServerOut]) <= Len(queue[ServerOut])
        /\ Len(queue'[ServerIn]) >= Len(queue[ServerIn])
        /\ SubSeq(queue'[ServerIn], 1, Len(queue[ServerIn])) = queue[ServerIn]

\* neither taking the finish signal nor finish() itself touches a worker or
\* one of the queues the workers use
TerminationLeavesWorkers ==
    (server'.running # server.running /\ server.running) \/ stopper' # stopper
        => /\ worker' = worker
           /\ tworker' = tworker
           /\ \A q \in QueueIds \ {ServerIn} : queue'[q] = queue[q]

\* the finish signal of the Server is on no other queue and reaches no worker
FinishStaysWithServer ==
    /\ \A q \in QueueIds \ {ServerIn} :
          \A i \in 1..Len(queue[q]) : ~is_finish_signal(queue[q][i])
    /\ \A w \in Workers : ~TookFinish(w)

\* worker w is in a run: its thread is started and a Client holds its pair and
\* has sent its message
InFlight(w) ==
    /\ worker[w].pc \in {"start", "get_client", "hello_trusted", "get_pair", "get_trusted"}
    /\ \E c \in ClientsOf(w) : client[c].pc = "recv"

\* the run of w is over, as it is without termination: the worker has put the
\* first 2 fields of the reply and its Client has accepted the session key
Completed(w) ==
    /\ worker[w].pc = "done"
    /\ worker[w].emitted = <<AllButLast(worker[w].from_trusted)>>
    /\ \E c \in ClientsOf(w) : Accepted(c) /\ client[c].session_key = worker[w].session_key

\* C13: a Server that has taken the finish signal creates no worker and hands
\* out no pair for what is behind the signal; its termination touches no
\* worker and no queue of a worker, and the runs in flight complete.
C13_TerminationIsLocal ==
    /\ [][StoppedStaysStopped /\ TerminationLeavesWorkers]_vars
    /\ []FinishStaysWithServer
    /\ (server.pc = "done" /\ InFlight(1)) ~> Completed(1)

C13_Witness ==
    /\ server.pc = "done"
    /\ \E i \in 1..Len(queue[ServerIn]) : PyEq(queue[ServerIn][i], hello_signal)
    /\ Completed(1)

\* the 2-field success reply is among what worker w has put on its output queue
PutSuccess(w) ==
    \E i \in 1..Len(worker[w].emitted) :
        worker[w].emitted[i].kind = "tuple" /\ Len(worker[w].emitted[i].items) = 2

\* worker w took a 3-field reply whose block for the server decrypts to 2 fields
ReplyUnpacks(w) ==
    /\ TookFromTrusted(w)
    /\ PyLen(worker[w].from_trusted) = 3
    /\ Len(ServerBlock(worker[w].from_trusted)) = 2

\* C14: a worker puts the 2-field reply only after a 3-field reply whose block
\* for the server decrypts under the server's key to 2 fields, the first being
\* the nonce this worker generated; when that field is another value the
\* worker puts ERROR, and the block for the client is on no message it puts.
C14_SuccessOnlyForOwnNonce ==
    \A w \in Workers :
        /\ PutSuccess(w) =>
              /\ ReplyUnpacks(w)
              /\ PyEq(Str(ServerBlock(worker[w].from_trusted)[1]), worker[w].nonce)
        /\ ServerNonceTampered(w) =>
              /\ worker[w].emitted = <<error_signal>>
              /\ queue[WorkerOut(w)] \in {<<>>, <<error_signal>>}
              /\ \A c \in Clients :
                    client[c].received.kind = "tuple" =>
                        \A i \in 1..Len(client[c].received.items) :
                            client[c].received.items[i] # Item(worker[w].from_trusted, 1)

C14_Witness ==
    \E w \in Workers : ServerNonceTampered(w) /\ queue[WorkerOut(w)] = <<error_signal>>

\* worker w took a 3-field reply whose first field is not the random value of
\* the client message w took, while its block for the server echoes w's nonce
RandomValueTampered(w) ==
    /\ TookFromClient(w)
    /\ PyLen(worker[w].from_client) = 4
    /\ ReplyUnpacks(w)
    /\ PyEq(Str(ServerBlock(worker[w].from_trusted)[1]), worker[w].nonce)
    /\ ~PyEq(Item(worker[w].from_trusted, 0), Item(worker[w].from_client, 0))

\* C15: a worker that takes a reply whose first field is not the random value
\* of the client message of its run puts ERROR and nothing else, although the
\* reply has 3 fields and echoes the worker's nonce.
C15_WrongRandomValueRejected ==
    \A w \in Workers : RandomValueTampered(w) => worker[w].emitted = <<error_signal>>

C15_Witness == \E w \in Workers : RandomValueTampered(w) /\ worker[w].pc = "done"

\* the client message worker w took has 4 fields and names this server
ValidClientMessage(w) ==
    /\ TookFromClient(w)
    /\ PyLen(worker[w].from_client) = 4
    /\ PyEq(Item(worker[w].from_client, 2), server_id)

\* the message worker w has sent to the Trusted Server after the hello signal
MessageToTrusted(w) == worker[w].sent_trusted[2]

\* the reply worker w took passes every check of the worker
AcceptedReply(w) ==
    /\ ValidClientMessage(w)
    /\ ReplyUnpacks(w)
    /\ PyEq(Item(worker[w].from_trusted, 0), Item(worker[w].from_client, 0))
    /\ PyEq(Str(ServerBlock(worker[w].from_trusted)[1]), worker[w].nonce)

\* C16: for a valid client message the message to the Trusted Server has 5
\* fields, the 4 fields of the client message in their order and then the text
\* nonce:random value:client id:server id encrypted under the server's key,
\* the nonce being a value the client message does not carry; for an accepted
\* reply the message put for the client is the first 2 fields of the reply.
C16_MessagesBuilt ==
    \A w \in Workers :
        /\ (ValidClientMessage(w) /\ Len(worker[w].sent_trusted) >= 2) =>
              LET m == MessageToTrusted(w)
                  from_client == worker[w].from_client
              IN /\ m.kind = "tuple" /\ Len(m.items) = 5
                 /\ \A i \in 0..3 : m.items[i + 1] = Item(from_client, i)
                 /\ m.items[5].kind = "enc"
                 /\ m.items[5].key = server_key
                 /\ worker[w].nonce.kind = "str"
                 /\ ~Carries(from_client, worker[w].nonce.chars)
                 /\ m.items[5].chars =
                        worker[w].nonce.chars \o <<":">> \o Format(Item(from_client, 0)) \o <<":">>
                            \o Format(Item(from_client, 1)) \o <<":">> \o Format(Item(from_client, 2))
        /\ AcceptedReply(w) =>
              /\ worker[w].emitted =
                    <<Tup(<<worker[w].from_trusted.items[1], worker[w].from_trusted.items[2]>>)>>
              /\ \/ queue[WorkerOut(w)] = worker[w].emitted
                 \/ \E c \in ClientsOf(w) : <<client[c].received>> = worker[w].emitted

C16_Witness ==
    \E w \in Workers : AcceptedReply(w) /\ Len(worker[w].sent_trusted) = 2 /\ worker[w].pc = "done"

\* C20 as claimed: a worker that puts ERROR because the nonce or the random
\* value of the reply does not match has no session key.
C20_RejectedHoldsNoKey ==
    \A w \in Workers :
        ((ServerNonceTampered(w) \/ RandomValueTampered(w)) /\ worker[w].emitted = <<error_signal>>)
            => worker[w].session_key.kind = "none"

\* what a worker does once: it takes from its input queue only while it has
\* taken nothing, keeps the nonce it has generated, and does nothing after it
\* has ended
SingleUse ==
    \A w \in Workers :
        /\ Len(queue'[WorkerIn(w)]) < Len(queue[WorkerIn(w)])
              => ~TookFromClient(w) /\ worker'[w].from_client = Head(queue[WorkerIn(w)])
        /\ worker[w].nonce.kind # "none" => worker'[w].nonce = worker[w].nonce
        /\ worker[w].pc = "done" => worker'[w] = worker[w]

\* at most the hello signal and one message go to the Trusted Server, and one
\* message, ERROR or the 2-field reply, is put exactly when the worker ends
OneOfEach ==
    \A w \in Workers :
        /\ Len(worker[w].sent_trusted) <= 2
        /\ Len(worker[w].sent_trusted) >= 1 => PyEq(worker[w].sent_trusted[1], hello_signal)
        /\ Len(worker[w].emitted) = (IF worker[w].pc = "done" THEN 1 ELSE 0)
        /\ worker[w].pc = "done" =>
              \/ PyEq(worker[w].emitted[1], error_signal)
              \/ worker[w].emitted[1].kind = "tuple" /\ Len(worker[w].emitted[1].items) = 2

Started(w) == worker[w].pc \in {"start", "get_client", "hello_trusted", "get_pair", "get_trusted"}

\* C17: a worker takes at most one message from its input queue, generates at
\* most one nonce, sends at most one message to the Trusted Server and puts
\* exactly one message, ERROR or the 2-field reply, when it ends; a started
\* worker with a message on its input queue ends.
C17_SingleUse ==
    /\ [][SingleUse]_vars
    /\ []OneOfEach
    /\ \A w \in Workers : (Started(w) /\ queue[WorkerIn(w)] # <<>>) ~> worker[w].pc = "done"

C17_Witness ==
    \E w \in Workers :
        /\ worker[w].pc = "done"
        /\ Len(worker[w].sent_trusted) = 2
        /\ queue[WorkerIn(w)] # <<>>

\* C18 as claimed: once finish() is called on the Server, whenever that is,
\* the Server ends with running false.
C18_FinishTerminates ==
    (stopper[0].pc # "idle") ~> (server.pc = "done" /\ ~server.running)

\* the hello signals on the Server's input queue
HellosWaiting == {i \in 1..Len(queue[ServerIn]) : PyEq(queue[ServerIn][i], hello_signal)}

\* the hello signals the Server has taken: those put less those still waiting
HellosConsumed == Cardinality({c \in Clients : client[c].pc # "hello"}) - Cardinality(HellosWaiting)

\* the pairs the Server has put: those waiting and those a requester holds
PairsPut ==
    Len(queue[ServerOut]) + Cardinality({c \in Clients : client[c].server.kind = "pair"})

\* C19 as claimed: a requester whose hello signal is on the input queue before
\* finish() is called receives a pair, and the Server has put as many pairs as
\* it has taken hello signals.
C19_EveryHelloAnswered ==
    /\ [](PairsPut = HellosConsumed /\ PairsPut = server.created)
    /\ \A c \in Clients :
          (client[c].pc = "get_pair" /\ stopper[0].pc = "idle") ~> (client[c].server.kind = "pair")

====
